---- MODULE Spec2Model ----
(***************************************************************************)
(* Model of the notebook src/tcap2021DM.ipynb: a dark-matter analysis      *)
(* workflow driving gammalib/ctools.  The state is the Python kernel's     *)
(* global names; there is one action per code cell, run top to bottom.     *)
(* A cell that raises stops at the raising statement, keeps the effects    *)
(* of the statements before it, and the session goes on with the next      *)
(* cell (interactive execution).                                           *)
(*                                                                         *)
(* Numbers.  Physical quantities that span many decades (cross sections,   *)
(* normalizations, fluxes) are held as 100*log10(x) rounded to an integer  *)
(* ("centidecades"), so that products and ratios are sums and differences. *)
(* LogZero stands for log10(0).  Masses are integers in GeV, GEnergy       *)
(* objects are integers in MeV.                                            *)
(*                                                                         *)
(* External tools.  ctobssim, ctlike and ctulimit are library calls; they  *)
(* either return or raise.  ctobssim reads the model collection saved to   *)
(* inmodel.xml; ctlike works on its own copy of the observation container  *)
(* and moves only free parameters, inside their ranges.                    *)
(***************************************************************************)
EXTENDS Integers, Sequences, FiniteSets

(* ---------------------------- bounds ----------------------------------- *)
\* number of scan points; the notebook uses 50 (line 740)
npoints == 4
\* number of distinct log-likelihood values the optimizer may return
MaxLL == 2

(* ------------------------ program constants ---------------------------- *)
\* 100*log10(1.8621e+18)
jfactor == 1827
\* 100*log10(2.7e-22)
Sigmav1 == -2157
\* 100*log10(5.0e-24)
Sigmav2 == -2330
\* 100*log10(8*pi)
Log8Pi == 140
\* 100*log10(1.0e-3)
LogMilli == -300
\* channel = 8
ChannelTau == 8
\* emin = 0.03 TeV, in units of 1e-3 TeV
EminMilliTeV == 30
\* Normalization.range(0.0, 1.0e+20): 100*log10(1.0e+20)
NormRangeMax == 2000
\* first and last exponent of the scan, times 100: 10**(-28) .. 10**(-6)
ScanLogLo == -2800
ScanLogHi == -600

LogZero == 0 - 1000000
Undef == 0 - 999999

\* The mass cell is the scenario input the tutorial asks the reader to set;
\* 5000 GeV is the shipped value, 20 and 30 GeV lie at or below emin.
MassInputs == {20, 30, 5000}

\* 100*log10(m) for the masses the model uses
LogMass(m) ==
  CASE m = 20 -> 130
    [] m = 30 -> 148
    [] m = 4000 -> 360
    [] m = 5000 -> 370
    [] OTHER -> 0

(* ------------------------- parameter store ----------------------------- *)
ParNames == {"Mass", "Channel", "Normalization"}

Par(v, f, lo, hi, sc) == [value |-> v, free |-> f, min |-> lo, max |-> hi, scale |-> sc]

InRange(p, v) == p.min <= v /\ v <= p.max

\* GModelSpectralTable after load(): Normalization is free by default,
\* Mass and Channel are fixed; ranges are those of the table file.
TableMassMin == 5
TableMassMax == 100000
TableChannelMax == 30
TableNormMax == 300
TableDefault ==
  [has |-> TRUE,
   Mass |-> Par(TableMassMin, FALSE, TableMassMin, TableMassMax, 1),
   Channel |-> Par(1, FALSE, 1, TableChannelMax, 1),
   Normalization |-> Par(0, TRUE, LogZero, TableNormMax, 1)]

\* an observation container / model collection without the source model
NoSrc ==
  [has |-> FALSE,
   Mass |-> Par(0, FALSE, 0, 0, 1),
   Channel |-> Par(0, FALSE, 0, 0, 1),
   Normalization |-> Par(0, FALSE, 0, 0, 1)]

\* One statement on a parameter of a source model.  st is a tuple
\* <<op, parameter, arguments...>>.  A statement raises when the source
\* model is absent, when value() is outside the parameter's range, or when
\* range() would exclude the current value.
StmtRaises(s, st) ==
  \/ ~s.has
  \/ st[1] = "value" /\ ~InRange(s[st[2]], st[3])
  \/ st[1] = "range" /\ (st[3] > st[4] \/ s[st[2]].value < st[3] \/ s[st[2]].value > st[4])

StmtApply(s, st) ==
  CASE st[1] = "value" -> [s EXCEPT ![st[2]].value = st[3]]
    [] st[1] = "scale" -> [s EXCEPT ![st[2]].scale = st[3]]
    [] st[1] = "range" -> [s EXCEPT ![st[2]].min = st[3], ![st[2]].max = st[4]]
    [] st[1] = "free"  -> [s EXCEPT ![st[2]].free = TRUE]
    [] st[1] = "fix"   -> [s EXCEPT ![st[2]].free = FALSE]

\* Run statements in order; stop at the first that raises.
RECURSIVE Exec(_, _)
Exec(s, stmts) ==
  IF stmts = <<>> THEN [store |-> s, err |-> "none"]
  ELSE IF StmtRaises(s, Head(stmts)) THEN [store |-> s, err |-> "GException"]
  ELSE Exec(StmtApply(s, Head(stmts)), Tail(stmts))

\* GEnergy(x, 'TeV') with x in 1e-3 TeV, and GEnergy(m, 'GeV'): both in MeV
GEnergyTeV(x) == x * 1000
GEnergyGeV(m) == m * 1000

\* Integral of the tabulated spectrum over [lo, hi] for unit normalization
\* (the table file is data outside the notebook: a fixed stand-in).
TableIntegral(m, ch, lo, hi) == LogMass(m) + ch + (hi - lo) \div 100000

\* spectral().flux(emin, emax): the library integrates only when
\* emin < emax and returns 0.0 otherwise; the notebook checks nothing.
Flux(s, lo, hi) ==
  IF lo < hi /\ s.Normalization.value # LogZero
  THEN s.Normalization.value
       + TableIntegral(s.Mass.value, s.Channel.value, lo, hi)
  ELSE LogZero

\* fluxnorm = jfactor * sigmav / (8*pi*mass**2); fluxnorm *= 1.0e-3
FluxNorm(sv, m) == (jfactor + sv - (Log8Pi + 2 * LogMass(m))) + LogMilli

(* --------------------------- external fit ------------------------------ *)
\* values the optimizer may settle a free parameter on, besides leaving it
NormFits == {-1600}
MassFits == {4000}
LLValues == 1..MaxLL

Fitted(p, cands) ==
  IF p.free THEN {v \in cands \cup {p.value} : InRange(p, v)} ELSE {p.value}

\* like.run(): raises (nothing changes), or returns with the free
\* parameters of the source moved in place and a log-likelihood value.
FitOutcomes(s) ==
  {[ok |-> FALSE, obs |-> s, ll |-> 0]} \cup
  (IF ~s.has THEN {}
   ELSE {[ok |-> TRUE,
          obs |-> [s EXCEPT !.Mass.value = m, !.Normalization.value = n],
          ll |-> l] :
         m \in Fitted(s.Mass, MassFits),
         n \in Fitted(s.Normalization, NormFits),
         l \in LLValues})

\* one like.run() invocation: the cell, the loop position (0 outside the
\* scan), the source model as the fit found it and as it left it
FitEntry(c, k, before, o) ==
  [cell |-> c, it |-> k, before |-> before, after |-> o.obs, ok |-> o.ok, ll |-> o.ll]

\* norma_r = [10**(-28 + i * width_s) for i in range(npoints)]
NormaR ==
  [k \in 1..npoints |->
     ScanLogLo + ((ScanLogHi - ScanLogLo) * (k - 1)) \div (npoints - 1)]

(* ------------------------------ state ---------------------------------- *)
VARIABLES
  pc,          \* the next cell to run
  err,         \* cell -> the exception it ended with, or "none"
  mass, channel, sigmav, fluxnorm,
  dmspec, dmmodel, models, inmodel,
  emin,
  obssim,      \* the source model in obssim.obs().models()
  like_obs,    \* the source model in like.obs().models()
  like_opt,    \* like.opt().value()
  ulimit,      \* the flux limit held by the ulimit tool
  gemin, gemax, ref_flux, meas_flux, meas_sigmav, ulimit_flux, ul_sigmav,
  norma_r, norma_i, ll_values,
  fitlog       \* history of like.run() invocations

scen == <<mass, channel, sigmav, fluxnorm>>
mods == <<dmspec, dmmodel, models, inmodel>>
tool == <<emin, obssim, like_obs, like_opt, ulimit>>
deriv == <<gemin, gemax, ref_flux, meas_flux, meas_sigmav, ulimit_flux, ul_sigmav>>
scan == <<norma_r, norma_i, ll_values>>

vars == <<pc, err, scen, mods, tool, deriv, scan, fitlog>>

Cells == {"c118", "c137", "c155", "c182", "c206", "c244", "c311", "c335",
          "c388", "c519", "c574", "c587", "c609", "c628", "c681", "c701",
          "c740", "c760", "c778", "scan", "done"}

Init ==
  /\ pc = "c118"
  /\ err = [c \in Cells |-> "none"]
  /\ mass = Undef /\ channel = Undef /\ sigmav = Undef /\ fluxnorm = Undef
  /\ dmspec = NoSrc /\ dmmodel = NoSrc /\ models = NoSrc /\ inmodel = NoSrc
  /\ emin = Undef /\ obssim = NoSrc /\ like_obs = NoSrc /\ like_opt = Undef
  /\ ulimit = Undef
  /\ gemin = Undef /\ gemax = Undef /\ ref_flux = Undef /\ meas_flux = Undef
  /\ meas_sigmav = Undef /\ ulimit_flux = Undef /\ ul_sigmav = Undef
  /\ norma_r = <<>> /\ norma_i = 0 /\ ll_values = <<>>
  /\ fitlog = <<>>

\* mass = 5.0e+3; channel = 8
Cell118 ==
  /\ pc = "c118"
  /\ \E m \in MassInputs : mass' = m
  /\ channel' = ChannelTau
  /\ pc' = "c137"
  /\ UNCHANGED <<err, sigmav, fluxnorm, mods, tool, deriv, scan, fitlog>>

\* sigmav = 2.7e-22
Cell137 ==
  /\ pc = "c137"
  /\ sigmav' = Sigmav1
  /\ pc' = "c155"
  /\ UNCHANGED <<err, mass, channel, fluxnorm, mods, tool, deriv, scan, fitlog>>

Cell155 ==
  /\ pc = "c155"
  /\ fluxnorm' = FluxNorm(sigmav, mass)
  /\ pc' = "c182"
  /\ UNCHANGED <<err, mass, channel, sigmav, mods, tool, deriv, scan, fitlog>>

\* dmspec = GModelSpectralTable(); load; set Mass, Channel, Normalization
\* (variant: the bounds of range() given in the wrong order)
SetupStmtsRangeSwapped ==
  << <<"value", "Mass", mass>>,
     <<"value", "Channel", channel>>,
     <<"scale", "Channel", 1>>,
     <<"value", "Normalization", fluxnorm>>,
     <<"range", "Normalization", NormRangeMax, LogZero>> >>
SetupStmts ==
  << <<"value", "Mass", mass>>,
     <<"value", "Channel", channel>>,
     <<"scale", "Channel", 1>>,
     <<"value", "Normalization", fluxnorm>>,
     <<"range", "Normalization", LogZero, NormRangeMax>> >>

Cell182 ==
  /\ pc = "c182"
  /\ LET r == Exec(TableDefault, SetupStmts)
     IN /\ dmspec' = r.store
        /\ err' = [err EXCEPT !["c182"] = r.err]
  /\ pc' = "c206"
  /\ UNCHANGED <<scen, dmmodel, models, inmodel, tool, deriv, scan, fitlog>>

\* dmspec['Mass'].free()
Cell206 ==
  /\ pc = "c206"
  /\ LET r == Exec(dmspec, << <<"free", "Mass">> >>)
     IN /\ dmspec' = r.store
        /\ err' = [err EXCEPT !["c206"] = r.err]
  /\ pc' = "c244"
  /\ UNCHANGED <<scen, dmmodel, models, inmodel, tool, deriv, scan, fitlog>>

\* dmmodel = GModelSky(spatial, dmspec): the sky model holds a copy of dmspec
Cell244 ==
  /\ pc = "c244"
  /\ dmmodel' = dmspec
  /\ pc' = "c311"
  /\ UNCHANGED <<err, scen, dmspec, models, inmodel, tool, deriv, scan, fitlog>>

\* models.append(dmmodel) stores a copy; models.save(inmodel) writes it out
Cell311 ==
  /\ pc = "c311"
  /\ models' = dmmodel
  /\ inmodel' = dmmodel
  /\ pc' = "c335"
  /\ UNCHANGED <<err, scen, dmspec, dmmodel, tool, deriv, scan, fitlog>>

\* emin = 0.03; obssim = ctools.ctobssim().  Running the simulation is the
\* proposed exercise of this cell: the reader may or may not have run it.
Cell335 ==
  /\ pc = "c335"
  /\ emin' = EminMilliTeV
  /\ \E ran \in BOOLEAN : obssim' = IF ran THEN inmodel ELSE NoSrc
  /\ pc' = "c388"
  /\ UNCHANGED <<err, scen, mods, like_obs, like_opt, ulimit, deriv, scan, fitlog>>

\* like = ctools.ctlike(obssim.obs()); like.run()
LikeCell(c, nxt) ==
  /\ pc = c
  /\ \E o \in FitOutcomes(obssim) :
       /\ like_obs' = o.obs
       /\ like_opt' = o.ll
       /\ fitlog' = Append(fitlog, FitEntry(c, 0, obssim, o))
       /\ err' = [err EXCEPT ![c] = IF o.ok THEN "none" ELSE "LibraryError"]
  /\ pc' = nxt
  /\ UNCHANGED <<scen, mods, emin, obssim, ulimit, deriv, scan>>

Cell388 == LikeCell("c388", "c519")

\* gemin, gemax, ref_flux, meas_flux; print(meas_sigmav)
Cell519 ==
  /\ pc = "c519"
  /\ gemin' = GEnergyTeV(emin)
  /\ gemax' = GEnergyGeV(mass)
  /\ ref_flux' = Flux(dmmodel, gemin', gemax')
  /\ IF like_obs.has
     THEN /\ meas_flux' = Flux(like_obs, gemin', gemax')
          /\ err' = [err EXCEPT !["c519"] =
                       IF meas_sigmav = Undef THEN "NameError" ELSE "none"]
     ELSE /\ meas_flux' = meas_flux
          /\ err' = [err EXCEPT !["c519"] = "LibraryError"]
  /\ pc' = "c574"
  /\ UNCHANGED <<scen, mods, tool, meas_sigmav, ulimit_flux, ul_sigmav, scan, fitlog>>

\* sigmav = 5.0e-24; fluxnorm recomputed
Cell574 ==
  /\ pc = "c574"
  /\ sigmav' = Sigmav2
  /\ fluxnorm' = FluxNorm(sigmav', mass)
  /\ pc' = "c587"
  /\ UNCHANGED <<err, mass, channel, mods, tool, deriv, scan, fitlog>>

\* models[srcname]: Normalization.value(fluxnorm); Mass.fix(); models.save
\* (variant: the new scenario also rewrites the mass of the model)
UpdateStmtsMass ==
  << <<"value", "Normalization", fluxnorm>>,
     <<"value", "Mass", 4000>>,
     <<"fix", "Mass">> >>
UpdateStmts ==
  << <<"value", "Normalization", fluxnorm>>,
     <<"fix", "Mass">> >>

\* models.save(inmodel) is the last statement: it runs when none before it
\* raised, and writes the collection as it then is
\* (variant: the collection is not written again after the update)
SavedStale(r, old) == old
Saved(r, old) == IF r.err = "none" THEN r.store ELSE old

Cell587 ==
  /\ pc = "c587"
  /\ LET r == Exec(models, UpdateStmts)
     IN /\ models' = r.store
        /\ inmodel' = Saved(r, inmodel)
        /\ err' = [err EXCEPT !["c587"] = r.err]
  /\ pc' = "c609"
  /\ UNCHANGED <<scen, dmspec, dmmodel, tool, deriv, scan, fitlog>>

\* obssim = ctools.ctobssim(); obssim.run()
Cell609 ==
  /\ pc = "c609"
  /\ \E ok \in BOOLEAN :
       /\ obssim' = IF ok THEN inmodel ELSE NoSrc
       /\ err' = [err EXCEPT !["c609"] = IF ok THEN "none" ELSE "LibraryError"]
  /\ pc' = "c628"
  /\ UNCHANGED <<scen, mods, emin, like_obs, like_opt, ulimit, deriv, scan, fitlog>>

Cell628 == LikeCell("c628", "c681")

\* ulimit = ctools.ctulimit(obssim.obs()); ulimit.run()
\* the limit found lies above the flux of the simulated model
ULimits(s) == {s.Normalization.value + 100}

Cell681 ==
  /\ pc = "c681"
  /\ \/ /\ obssim.has
        /\ \E u \in ULimits(obssim) : ulimit' = u
        /\ err' = err
     \/ /\ ulimit' = Undef
        /\ err' = [err EXCEPT !["c681"] = "LibraryError"]
  /\ pc' = "c701"
  /\ UNCHANGED <<scen, mods, emin, obssim, like_obs, like_opt, deriv, scan, fitlog>>

\* ulimit_flux = ulimit.flux_ulimit(); ul_sigmav = <nothing>; print(ul_sigmav)
\* The cell does not compile: none of its statements runs.
Cell701 ==
  /\ pc = "c701"
  /\ err' = [err EXCEPT !["c701"] = "SyntaxError"]
  /\ pc' = "c740"
  /\ UNCHANGED <<scen, mods, tool, deriv, scan, fitlog>>

\* npoints, width_s, norma_r
Cell740 ==
  /\ pc = "c740"
  /\ norma_r' = NormaR
  /\ pc' = "c760"
  /\ UNCHANGED <<err, scen, mods, tool, deriv, norma_i, ll_values, fitlog>>

\* like.obs().models()[srcname].spectral()['Normalization'].fix()
\* (variant: free() called where fix() was meant)
FixStmtsFreed == << <<"free", "Normalization">> >>
FixStmts == << <<"fix", "Normalization">> >>

Cell760 ==
  /\ pc = "c760"
  /\ LET r == Exec(like_obs, FixStmts)
     IN /\ like_obs' = r.store
        /\ err' = [err EXCEPT !["c760"] = r.err]
  /\ pc' = "c778"
  /\ UNCHANGED <<scen, mods, emin, obssim, like_opt, ulimit, deriv, scan, fitlog>>

\* ll_values = []
ScanStart ==
  /\ pc = "c778"
  /\ ll_values' = <<>>
  /\ norma_i' = 0
  /\ pc' = "scan"
  /\ UNCHANGED <<err, scen, mods, tool, deriv, norma_r, fitlog>>

\* the parameter statement of one loop iteration
\* (variant: the trial value is never written to the parameter)
TrialStmtsSkipped(norma) == <<>>
TrialStmts(norma) == << <<"value", "Normalization", norma>> >>

\* for norma in norma_r: value(norma); like.run(); ll = opt().value(); append
ScanIter ==
  /\ pc = "scan"
  /\ norma_i < Len(norma_r)
  /\ norma_i' = norma_i + 1
  /\ LET r == Exec(like_obs, TrialStmts(norma_r[norma_i + 1]))
     IN IF r.err # "none"
        THEN /\ err' = [err EXCEPT !["c778"] = r.err]
             /\ pc' = "done"
             /\ UNCHANGED <<like_obs, like_opt, ll_values, fitlog>>
        ELSE \E o \in FitOutcomes(r.store) :
               /\ like_obs' = o.obs
               /\ fitlog' = Append(fitlog, FitEntry("c778", norma_i', r.store, o))
               /\ IF o.ok
                  THEN /\ like_opt' = o.ll
                       /\ ll_values' = Append(ll_values, like_opt')
                       /\ UNCHANGED <<err, pc>>
                  ELSE /\ err' = [err EXCEPT !["c778"] = "LibraryError"]
                       /\ pc' = "done"
                       /\ UNCHANGED <<like_opt, ll_values>>
  /\ UNCHANGED <<scen, mods, emin, obssim, ulimit, deriv, norma_r>>

\* (variant: the loop exit frees the scanned parameter again)
ScanEndRestoring ==
  /\ pc = "scan"
  /\ norma_i = Len(norma_r)
  /\ pc' = "done"
  /\ like_obs' = [like_obs EXCEPT !.Normalization.free = TRUE]
  /\ UNCHANGED <<err, scen, mods, emin, obssim, like_opt, ulimit, deriv, scan, fitlog>>

\* the loop has consumed norma_r
ScanEnd ==
  /\ pc = "scan"
  /\ norma_i = Len(norma_r)
  /\ pc' = "done"
  /\ UNCHANGED <<err, scen, mods, tool, deriv, scan, fitlog>>

Next ==
  \/ Cell118 \/ Cell137 \/ Cell155 \/ Cell182 \/ Cell206 \/ Cell244
  \/ Cell311 \/ Cell335 \/ Cell388 \/ Cell519 \/ Cell574 \/ Cell587
  \/ Cell609 \/ Cell628 \/ Cell681 \/ Cell701 \/ Cell740 \/ Cell760
  \/ ScanStart \/ ScanIter \/ ScanEnd

Spec == Init /\ [][Next]_vars

(* ------------------------- derived notions ----------------------------- *)
IsScanFit(e) == e.cell = "c778"
ScanFits == SelectSeq(fitlog, IsScanFit)
FitsOf(c) == {k \in 1..Len(fitlog) : fitlog[k].cell = c}
Stores == {dmspec, dmmodel, models, inmodel, obssim, like_obs}
\* cells up to and including the flux cell have not all run yet
BeforeDerivation ==
  pc \in {"c118", "c137", "c155", "c182", "c206", "c244", "c311", "c335",
          "c388", "c519"}
InScan == pc \in {"c778", "scan", "done"}

(* ------------------------------ claims --------------------------------- *)

\* C1: when a scan whose fix() step succeeded has ended, the fit has been
\* invoked exactly once per trial value, in order, and ll_values holds
\* exactly one value per trial, the k-th being the result of the fit run at
\* the k-th trial value.
C1_ScanFitsEveryTrialOnce ==
  (pc = "done" /\ err["c760"] = "none") =>
    /\ Len(ScanFits) = Len(norma_r)
    /\ Len(ll_values) = Len(norma_r)
    /\ \A k \in 1..Len(norma_r) :
         /\ ScanFits[k].it = k
         /\ ScanFits[k].before.Normalization.value = norma_r[k]
         /\ ll_values[k] = ScanFits[k].ll

\* C2: a fit that fails for a trial value does not abort the scan: a point
\* is recorded for that trial and the remaining trials are evaluated.
C2_FailedTrialDoesNotAbort ==
  \A k \in 1..Len(ScanFits) :
    (~ScanFits[k].ok /\ pc = "done") =>
      /\ Len(ll_values) >= ScanFits[k].it
      /\ ScanFits[Len(ScanFits)].it = Len(norma_r)

\* C3: Normalization is fixed before the first trial value is set, at every
\* fit of the scan (which leaves its value alone), and after the scan.
C3_NormalizationFixedThroughScan ==
  /\ (InScan /\ like_obs.has) => ~like_obs.Normalization.free
  /\ \A k \in 1..Len(ScanFits) :
       /\ ~ScanFits[k].before.Normalization.free
       /\ ~ScanFits[k].after.Normalization.free
       /\ ScanFits[k].after.Normalization.value
            = ScanFits[k].before.Normalization.value

C3_Witness ==
  /\ pc = "done"
  /\ Len(ScanFits) = npoints
  /\ ScanFits[npoints].ok
  /\ ~like_obs.Normalization.free

\* C4: once the flux cell has run, the measured cross section is
\* (meas_flux / ref_flux) * sigmav when ref_flux > 0, and the cell has
\* failed with DegenerateReferenceError otherwise; likewise the upper-limit
\* cross section once the upper-limit cell has run.
C4_CrossSectionDerived ==
  /\ pc = "c574" =>
       IF ref_flux # LogZero /\ ref_flux # Undef
       THEN meas_sigmav = (meas_flux - ref_flux) + sigmav
       ELSE err["c519"] = "DegenerateReferenceError"
  /\ pc = "c740" =>
       IF ref_flux # LogZero /\ ref_flux # Undef
       THEN ul_sigmav = (ulimit_flux - ref_flux) + sigmav
       ELSE err["c701"] = "DegenerateReferenceError"

\* C5: every fit of the scan sees Normalization at the trial value of its
\* own iteration, and the value is still that trial value when the
\* log-likelihood is read after the fit.
C5_FitSeesCurrentTrialValue ==
  \A k \in 1..Len(ScanFits) :
    /\ ScanFits[k].before.Normalization.value = norma_r[ScanFits[k].it]
    /\ ScanFits[k].ok =>
         /\ ScanFits[k].after.Normalization.value = norma_r[ScanFits[k].it]
         /\ (k = Len(ScanFits) /\ pc = "scan" /\ ScanFits[k].it = norma_i)
              => like_obs.Normalization.value = norma_r[norma_i]

C5_Witness ==
  /\ pc = "scan"
  /\ norma_i = npoints
  /\ Len(ll_values) = npoints
  /\ like_obs.Normalization.value = norma_r[npoints]
  /\ fitlog[1].ok /\ fitlog[1].after.Normalization.value # fitlog[1].before.Normalization.value

NormOk(s) ==
  (s.has /\ s.Normalization.free) =>
    /\ s.Normalization.min = LogZero
    /\ s.Normalization.max = NormRangeMax
    /\ InRange(s.Normalization, s.Normalization.value)

C9_SigmavChangesOnlyNormalization ==
  [][(pc = "c587" /\ models.has) =>
       /\ models'.Normalization.value = FluxNorm(Sigmav2, mass)
       /\ models'.Normalization.value # models.Normalization.value
       /\ models'.Mass.value = models.Mass.value
       /\ models'.Channel.value = models.Channel.value
       /\ inmodel'.Normalization.value = models'.Normalization.value
       /\ inmodel'.Mass.value = inmodel.Mass.value
       /\ inmodel'.Channel.value = inmodel.Channel.value]_vars

C9_Witness ==
  /\ pc = "c609"
  /\ err["c587"] = "none"
  /\ sigmav = Sigmav2
  /\ inmodel.Normalization.value = FluxNorm(Sigmav2, mass)
  /\ inmodel.Mass.value = mass
  /\ inmodel.Channel.value = channel

RefFluxNorm ==
  ref_flux - TableIntegral(dmmodel.Mass.value, dmmodel.Channel.value, gemin, gemax)

\* C11: when the upper-limit cross section is about to be derived, the
\* reference flux in scope was integrated from a model whose Normalization
\* was computed from the value sigmav has at that point.
C11_RefFluxMatchesSigmav ==
  (pc = "c701" /\ ref_flux # Undef /\ ref_flux # LogZero) =>
    RefFluxNorm = FluxNorm(sigmav, mass)

\* the scan cell ran to its end: every trial was set and fitted
ScanCompleted == pc = "done" /\ err["c778"] = "none" /\ norma_i = Len(norma_r)

\* C12: after a scan over a non-empty trial sequence has completed,
\* Normalization holds the last trial value and not the value the fit
\* before the scan left it at, it is still fixed, and norma_r is the
\* sequence the scan was given.
C12_ScanLeavesLastTrialValue ==
  /\ InScan => norma_r = NormaR
  /\ (ScanCompleted /\ Len(norma_r) > 0) =>
       /\ like_obs.has
       /\ like_obs.Normalization.value = norma_r[Len(norma_r)]
       /\ ~like_obs.Normalization.free
       /\ \A k \in FitsOf("c628") :
            like_obs.Normalization.value # fitlog[k].after.Normalization.value

C12_Witness ==
  /\ ScanCompleted
  /\ Len(ll_values) = npoints
  /\ like_obs.Normalization.value = NormaR[npoints]
  /\ \E k \in FitsOf("c628") :
       fitlog[k].ok /\ fitlog[k].after.Normalization.value \in NormFits
====
